---- MODULE Spec2Model ----
(***************************************************************************)
(* The QTC PQ network seeder (contrib/seeds/qtc-seeder.py): the runner     *)
(* (main, run_continuous), one crawl pass (crawl_network) with its thread  *)
(* pool, the probe workers (crawl_peer, test_pq_handshake) and the         *)
(* persistence step (save_peers).                                          *)
(***************************************************************************)
EXTENDS Integers, Sequences, FiniteSets, TLC

\* ---------------------------------------------------------------- bounds
\* Passes the continuous loop is followed for.
MaxPasses == 2
\* --max-peers is drawn from 0..MaxMaxPeers.
MaxMaxPeers == 2
\* --threads is drawn from 1..MaxThreads.
MaxThreads == 2
\* Ciphertexts of every length up to MaxCipherLen are given to
\* create_pq_handshake byte by byte (and a few long ones filled with zeros).
MaxCipherLen == 3
\* Bytes a response goes on for after its status byte, at most.
MaxTail == 2
\* Passes the loop is followed for where progress is checked.
MaxLivePasses == 1
\* The witness-size test is given base sizes 0..MaxBaseSize and witness sizes
\* 0..MaxWitnessSize (and its own mock sizes).
MaxBaseSize == 5
MaxWitnessSize == 5
\* Addresses given to verify_address_format are up to MaxAddrSlack characters
\* shorter or longer than a well-formed one.
MaxAddrSlack == 1

\* ------------------------------------------------------ program constants
DEFAULT_PORT == 8333
\* crawl_network(self, threads: int = 50)
DefaultThreads == 50
\* len(response) >= 7
MinResponseLen == 7
\* response[6], zero-based, is the 7th byte
StatusIndex == 7
QTC_MAGIC_BYTES == <<249, 190, 180, 217>>
QTC_VERSION == 1
\* b'\x00' * 1568, the ciphertext create_pq_handshake uses when given none
DummyCiphertextLen == 1568
\* b'\x00' * 32, the padding that ends the ClientHello
PaddingLen == 32
\* The largest value struct.pack('<H', n) accepts
UInt16Max == 65535

\* verify_qtc_implementation.py: len(address) != 42
AddressLen == 42

\* test/functional/qtc_pq_witness_size.py: bytes([0x99]) * 3293 and
\* bytes([0x42]) * 1952
MockSigLen == 3293
MockPkLen == 1952

\* ------------------------------------------------------------- strings
\* A string is a sequence of characters; a host name is kept as one
\* character-like token, the separator and the digits are characters.
DigitChars == <<"0", "1", "2", "3", "4", "5", "6", "7", "8", "9">>

IsDigit(c) == \E i \in 1..Len(DigitChars) : DigitChars[i] = c

DigitVal(c) == (CHOOSE i \in 1..Len(DigitChars) : DigitChars[i] = c) - 1

\* str(n) for n >= 0, as the f-string formats DEFAULT_PORT
RECURSIVE IntToStr(_)
IntToStr(n) ==
    IF n < 10 THEN <<DigitChars[n + 1]>>
    ELSE IntToStr(n \div 10) \o <<DigitChars[(n % 10) + 1]>>

\* int(s) succeeds on a non-empty string of decimal digits
IsDecimal(s) == Len(s) > 0 /\ \A i \in 1..Len(s) : IsDigit(s[i])

RECURSIVE StrToInt(_)
StrToInt(s) ==
    IF Len(s) = 0 THEN 0
    ELSE 10 * StrToInt(SubSeq(s, 1, Len(s) - 1)) + DigitVal(s[Len(s)])

\* f"{seed}:{DEFAULT_PORT}"
FormatAddr(seed, port) == <<seed, ":">> \o IntToStr(port)

\* peer_addr.rsplit(':', 1): the parts around the last ':' (one part if none)
RSplit1(s) ==
    LET I == {i \in 1..Len(s) : s[i] = ":"}
    IN  IF I = {} THEN <<s>>
        ELSE LET k == CHOOSE i \in I : \A j \in I : j <= i
             IN  <<SubSeq(s, 1, k - 1), SubSeq(s, k + 1, Len(s))>>

\* host, port = peer_addr.rsplit(':', 1); port = int(port)  raises ValueError
\* when there is no ':' (unpacking one part) or the port is not an integer
ParseRaises(peer_addr) ==
    \/ Len(RSplit1(peer_addr)) # 2
    \/ ~IsDecimal(RSplit1(peer_addr)[2])

ParsedHost(peer_addr) == RSplit1(peer_addr)[1]

ParsedPort(peer_addr) == StrToInt(RSplit1(peer_addr)[2])

\* ---------------------------------------------------------------- seeds
seeds == <<"seed1.qtc.org", "seed2.qtc.org", "seed3.qtc.org", "127.0.0.1">>

\* add_seed_nodes: known_peers.add(f"{seed}:{DEFAULT_PORT}") for each seed
add_seed_nodes(known) ==
    known \cup {FormatAddr(seeds[i], DEFAULT_PORT) : i \in 1..Len(seeds)}

\* ------------------------------------------------------------- network
\* What the peer's side of one probe does: whether socket(), connect() and
\* send() succeed, and what recv(4096) yields (bytes, or a timeout).
Responses ==
    { <<249, 190, 180, 217, 1, 0, 0>>,       \* magic, version, status 0
      <<249, 190, 180, 217, 1, 0, 1>>,       \* non-zero status
      <<0, 190, 180, 217, 1, 0, 0>>,         \* wrong magic
      <<249, 190, 180, 217, 1>>,             \* 5 bytes
      <<>> }                                 \* peer closed

RecvOutcomes ==
    {[timeout |-> TRUE, data |-> <<>>]} \cup
    {[timeout |-> FALSE, data |-> r] : r \in Responses}

\* One record per way a probe can go: the first call that fails, or the
\* outcome of recv when none does.
NetOk(r) == [socket_ok |-> TRUE, connect_ok |-> TRUE, send_ok |-> TRUE, recv |-> r]

NoData == [timeout |-> FALSE, data |-> <<>>]

NetBehaviours ==
    {[NetOk(NoData) EXCEPT !.socket_ok = FALSE],
     [NetOk(NoData) EXCEPT !.connect_ok = FALSE],
     [NetOk(NoData) EXCEPT !.send_ok = FALSE]} \cup
    {NetOk(r) : r \in RecvOutcomes}

\* The check of lines 81-83 without its look at the status byte
Accepts_nostatus(response) ==
    /\ Len(response) >= MinResponseLen
    /\ SubSeq(response, 1, 4) = QTC_MAGIC_BYTES

\* len(response) >= 7 and response[:4] == QTC_MAGIC_BYTES and response[6] == 0
Accepts(response) ==
    /\ Len(response) >= MinResponseLen
    /\ SubSeq(response, 1, 4) = QTC_MAGIC_BYTES
    /\ response[StatusIndex] = 0

\* The except clause of test_pq_handshake: the exception is logged and the
\* call returns False (escapes = FALSE).
handshake_except == [result |-> FALSE, escapes |-> FALSE]

\* test_pq_handshake(host, port) against a peer behaving as net: the value
\* returned, whether an exception leaves the call, and the socket it opened
\* as the code leaves it ("none": socket() itself failed; "open": the call
\* returned without executing sock.close(), so the descriptor stays open until
\* the interpreter finalizes the object, if it ever does; "closed":
\* sock.close() ran).
test_pq_handshake(net) ==
    IF ~net.socket_ok
      THEN [result |-> handshake_except.result,
            escapes |-> handshake_except.escapes, sock |-> "none"]
    ELSE IF ~net.connect_ok \/ ~net.send_ok \/ net.recv.timeout
      THEN [result |-> handshake_except.result,
            escapes |-> handshake_except.escapes, sock |-> "open"]
    ELSE IF Accepts(net.recv.data)
      THEN [result |-> TRUE, escapes |-> FALSE, sock |-> "open"]
    ELSE [result |-> FALSE, escapes |-> FALSE, sock |-> "closed"]

\* The except clause of crawl_peer: any Exception raised in its body is
\* logged and swallowed; TRUE iff the exception leaves crawl_peer.
crawl_peer_except == FALSE

\* --------------------------------------------------------- ClientHello
\* b'\x00' * n
Zeros(n) == [i \in 1..n |-> 0]

\* struct.pack('<H', n) packing the low byte after the high one
struct_pack_H_big(n) ==
    IF n \in 0..UInt16Max
      THEN [raised |-> FALSE, bytes |-> <<n \div 256, n % 256>>]
      ELSE [raised |-> TRUE, bytes |-> <<>>]

\* struct.pack('<H', n): two bytes, low byte first; struct.error when n does
\* not fit an unsigned 16-bit integer
struct_pack_H(n) ==
    IF n \in 0..UInt16Max
      THEN [raised |-> FALSE, bytes |-> <<n % 256, n \div 256>>]
      ELSE [raised |-> TRUE, bytes |-> <<>>]

\* The argument of create_pq_handshake: None, or a bytes object
None == [is_none |-> TRUE, bytes |-> <<>>]
Bytes(b) == [is_none |-> FALSE, bytes |-> b]

\* create_pq_handshake(server_pk), lines 50-63: the message returned, or
\* raised = TRUE when struct.pack raises
create_pq_handshake(server_pk) ==
    LET pk      == IF server_pk.is_none THEN Zeros(DummyCiphertextLen)
                                        ELSE server_pk.bytes
        version == struct_pack_H(QTC_VERSION)
        length  == struct_pack_H(Len(pk))
    IN  IF version.raised \/ length.raised
          THEN [raised |-> TRUE, msg |-> <<>>]
          ELSE [raised |-> FALSE,
                msg |-> QTC_MAGIC_BYTES \o version.bytes \o length.bytes \o pk
                        \o Zeros(PaddingLen)]

\* ----------------------------------------------------------------- state
VARIABLES
    continuous,     \* args.continuous
    threads,        \* args.threads
    max_peers,      \* self.max_peers
    known_peers,    \* self.known_peers
    good_peers,     \* self.good_peers
    lock,           \* self.lock: the address whose worker holds it, or Free
    pc,             \* where the main thread is
    max_workers,    \* the current executor's max_workers
    todo,           \* list(self.known_peers) not yet iterated by the for loop
    futures,        \* the tasks submitted in this pass, by address
    output,         \* the content of output_file
    pending,        \* save_peers' local dict "output" while it is being written
    clock,          \* int(time.time())
    passes,         \* calls of crawl_network so far
    saves,          \* calls of save_peers so far
    sleeps,         \* calls of time.sleep so far
    start_len,      \* len(good_peers) when the current pass began
    inflight_at_cap, \* tasks submitted and not returned when len(good_peers)
                    \* first reached max_peers; NotYet before that
    call,           \* a method called on its own: its name and argument
    ret             \* what that call returned

vars == <<continuous, threads, max_peers, known_peers, good_peers, lock, pc,
          max_workers, todo, futures, output, pending, clock, passes, saves,
          sleeps, start_len, inflight_at_cap, call, ret>>

config == <<continuous, threads, max_peers>>

\* The call of a method on its own and its result, which the seeder's run
\* never touches
codec == <<call, ret>>

NoCall == [fn |-> "none"]

NoRet == [done |-> FALSE]

Free == <<>>

NotYet == -1

NoFile == [written |-> FALSE]

\* save_peers is not running: it has no local dict
NoOutput == [timestamp |-> NotYet, total_peers |-> NotYet]

Dispatched == DOMAIN futures

\* Tasks a worker thread is executing
Executing == {a \in Dispatched : futures[a].pc \in {"running", "waitlock", "locked"}}

\* Tasks submitted whose crawl_peer call has not returned
InFlight(f) == {a \in DOMAIN f : f[a].pc # "done"}

NewTask == [pc |-> "queued", ok |-> FALSE, sock |-> "none", exc |-> FALSE]

\* ------------------------------------------------------------------ Init
\* The values of --threads followed. run_continuous never reads args.threads
\* (it calls crawl_network() with the default), so one value stands for all
\* of them in continuous mode.
ThreadChoices(cont) == IF cont THEN {1} ELSE 1..MaxThreads

\* QTCPQSeeder(args.output, args.max_peers), before main takes its branch
Constructed ==
    /\ continuous \in BOOLEAN
    /\ threads \in ThreadChoices(continuous)
    /\ max_peers \in 0..MaxMaxPeers
    /\ known_peers = {}
    /\ good_peers = <<>>
    /\ lock = Free
    /\ pc = "main"
    /\ max_workers = 0
    /\ todo = {}
    /\ futures = <<>>
    /\ output = NoFile
    /\ pending = NoOutput
    /\ clock = 0
    /\ passes = 0
    /\ saves = 0
    /\ sleeps = 0
    /\ start_len = 0
    /\ inflight_at_cap = IF 0 >= max_peers THEN 0 ELSE NotYet

Init ==
    /\ Constructed
    /\ call = NoCall
    /\ ret = NoRet

\* ---------------------------------------------------------------- runner
\* The worker count a pass runs with: main passes args.threads in
\* single-shot mode; run_continuous calls crawl_network() with its default.
PassThreads == IF continuous THEN DefaultThreads ELSE threads

\* A pass that leaves out of its list the addresses that have a record
crawl_network_begin_skip_confirmed ==
    /\ pc \in {"main", "loop_top"}
    /\ passes < MaxPasses
    /\ known_peers' = add_seed_nodes(known_peers)
    /\ max_workers' = PassThreads
    /\ futures' = <<>>
    /\ todo' = known_peers' \ {good_peers[i].addr : i \in 1..Len(good_peers)}
    /\ passes' = passes + 1
    /\ start_len' = Len(good_peers)
    /\ pc' = "for"
    /\ UNCHANGED <<config, codec, pending, good_peers, lock, output, clock,
                   saves, sleeps, inflight_at_cap>>

\* crawl_network, lines 121-130: seed, create the executor, futures = [],
\* take list(self.known_peers)
crawl_network_begin ==
    /\ pc \in {"main", "loop_top"}
    /\ passes < MaxPasses
    /\ known_peers' = add_seed_nodes(known_peers)
    /\ max_workers' = PassThreads
    /\ futures' = <<>>
    /\ todo' = known_peers'
    /\ passes' = passes + 1
    /\ start_len' = Len(good_peers)
    /\ pc' = "for"
    /\ UNCHANGED <<config, codec, pending, good_peers, lock, output, clock, saves, sleeps,
                   inflight_at_cap>>

\* The cap check written with > for >=
CapReached_gt == Len(good_peers) > max_peers

\* if len(self.good_peers) >= self.max_peers: break
CapReached == Len(good_peers) >= max_peers

\* The head of the for loop and the cap check of line 131
for_check ==
    /\ pc = "for"
    /\ pc' = IF todo = {} \/ CapReached THEN "drain" ELSE "submit"
    /\ UNCHANGED <<config, codec, pending, known_peers, good_peers, lock, max_workers, todo,
                   futures, output, clock, passes, saves, sleeps, start_len,
                   inflight_at_cap>>

\* future = executor.submit(self.crawl_peer, peer); futures.append(future)
\* The iteration order of list(a set) is not specified: any remaining peer.
submit ==
    /\ pc = "submit"
    /\ \E peer \in todo :
         /\ futures' = [a \in Dispatched \cup {peer} |->
                          IF a = peer THEN NewTask ELSE futures[a]]
         /\ todo' = todo \ {peer}
    /\ pc' = "for"
    /\ UNCHANGED <<config, codec, pending, known_peers, good_peers, lock, max_workers, output,
                   clock, passes, saves, sleeps, start_len, inflight_at_cap>>

\* Waiting for the first completed future only
AllDone_first(f) == DOMAIN f = {} \/ \E a \in DOMAIN f : f[a].pc = "done"

\* Every future of the pass is done
AllDone(f) == \A a \in DOMAIN f : f[a].pc = "done"

\* for future in as_completed(futures): future.result(), and the executor's
\* __exit__ (shutdown(wait=True)); then line 140. future.result() re-raises
\* an exception that left crawl_peer.
drain ==
    /\ pc = "drain"
    /\ AllDone(futures)
    /\ pc' = IF \E a \in Dispatched : futures[a].exc THEN "crashed" ELSE "completed"
    /\ UNCHANGED <<config, codec, pending, known_peers, good_peers, lock, max_workers, todo,
                   futures, output, clock, passes, saves, sleeps, start_len,
                   inflight_at_cap>>

\* The continuous loop without its time.sleep
AfterSave_nosleep == IF continuous THEN "loop_top" ELSE "exit"

\* Where the runner goes after save_peers returned
AfterSave == IF continuous THEN "sleep" ELSE "exit"

\* open(self.output_file, 'w') or json.dump raising: save_peers has no handler,
\* nor have run_continuous and main, so the exception ends the process.
AfterSaveError == "crashed"

\* save_peers, lines 144-148: the dict is built. Its timestamp and total_peers
\* are values computed now; its "peers" entry is the list self.good_peers
\* itself, not a copy, so what is written is the list as it is at json.dump.
save_peers_output ==
    /\ pc = "completed"
    /\ saves' = saves + 1
    /\ pending' = [timestamp |-> clock, total_peers |-> Len(good_peers)]
    /\ pc' = "dump"
    /\ UNCHANGED <<config, codec, known_peers, good_peers, lock, max_workers, todo,
                   futures, output, clock, passes, sleeps, start_len,
                   inflight_at_cap>>

\* What json.dump(output, f, indent=2) leaves in the file opened with 'w'
json_dump(out, good) ==
    [written |-> TRUE, timestamp |-> out.timestamp,
     total_peers |-> out.total_peers, peers |-> good]

\* save_peers returning without writing when there is no record to write
save_peers_skip_empty ==
    /\ pc = "dump"
    /\ pending' = NoOutput
    /\ output' = IF good_peers = <<>> THEN output
                                      ELSE json_dump(pending, good_peers)
    /\ pc' = AfterSave
    /\ UNCHANGED <<config, codec, known_peers, good_peers, lock, max_workers,
                   todo, futures, clock, passes, saves, sleeps, start_len,
                   inflight_at_cap>>

\* save_peers, lines 150-153: open(self.output_file, 'w') and json.dump. The
\* open can fail, which leaves the file as it was; a write failing after the
\* open leaves a truncated file that holds no document.
save_peers ==
    /\ pc = "dump"
    /\ pending' = NoOutput
    /\ \E io \in {"ok", "open_raises", "write_raises"} :
         IF io = "ok"
           THEN /\ output' = json_dump(pending, good_peers)
                /\ pc' = AfterSave
           ELSE /\ output' = IF io = "open_raises" THEN output ELSE NoFile
                /\ pc' = AfterSaveError
    /\ UNCHANGED <<config, codec, known_peers, good_peers, lock, max_workers, todo,
                   futures, clock, passes, saves, sleeps, start_len,
                   inflight_at_cap>>

\* time.sleep(interval), then the while True loop comes round
sleep ==
    /\ pc = "sleep"
    /\ sleeps' = sleeps + 1
    /\ clock' = clock + 1
    /\ pc' = "loop_top"
    /\ UNCHANGED <<config, codec, pending, known_peers, good_peers, lock, max_workers, todo,
                   futures, output, passes, saves, start_len, inflight_at_cap>>

\* --------------------------------------------------------------- workers
SetTask(a, t) == [futures EXCEPT ![a] = t]

\* A pool thread takes a queued task; at most max_workers threads exist
worker_run(a) ==
    /\ futures[a].pc = "queued"
    /\ Cardinality(Executing) < max_workers
    /\ futures' = SetTask(a, [futures[a] EXCEPT !.pc = "running"])
    /\ UNCHANGED <<config, codec, pending, known_peers, good_peers, lock, pc, max_workers, todo,
                   output, clock, passes, saves, sleeps, start_len,
                   inflight_at_cap>>

\* crawl_peer and test_pq_handshake without their except clauses: a
\* ValueError of the parse, or the socket error of a failed socket(), connect,
\* send or recv, leaves crawl_peer
crawl_peer_probe_result_raise(a, net) ==
    LET r == test_pq_handshake(net) IN
    IF ParseRaises(a)
      THEN [pc |-> "done", ok |-> FALSE, sock |-> "none", exc |-> TRUE]
    ELSE IF ~net.socket_ok \/ ~net.connect_ok \/ ~net.send_ok \/ net.recv.timeout
      THEN [pc |-> "done", ok |-> FALSE, sock |-> r.sock, exc |-> TRUE]
    ELSE IF r.result
      THEN [pc |-> "waitlock", ok |-> TRUE, sock |-> r.sock, exc |-> FALSE]
    ELSE [pc |-> "done", ok |-> FALSE, sock |-> r.sock, exc |-> FALSE]

\* crawl_peer putting an address whose handshake failed back in the queue
crawl_peer_probe_result_retry(a, net) ==
    LET r == test_pq_handshake(net) IN
    IF ParseRaises(a)
      THEN [pc |-> "done", ok |-> FALSE, sock |-> "none", exc |-> FALSE]
    ELSE IF r.result
      THEN [pc |-> "waitlock", ok |-> TRUE, sock |-> r.sock, exc |-> FALSE]
    ELSE [pc |-> "queued", ok |-> FALSE, sock |-> r.sock, exc |-> FALSE]

\* crawl_peer going on to the with block of line 102 whatever the handshake
\* returned
crawl_peer_probe_result_always(a, net) ==
    LET r == test_pq_handshake(net) IN
    IF ParseRaises(a)
      THEN [pc |-> "done", ok |-> FALSE, sock |-> "none", exc |-> FALSE]
      ELSE [pc |-> "waitlock", ok |-> r.result, sock |-> r.sock, exc |-> FALSE]

\* crawl_peer on a socket without settimeout: a recv the peer never answers
\* does not return
crawl_peer_probe_result_block(a, net) ==
    LET r == test_pq_handshake(net) IN
    IF ParseRaises(a)
      THEN [pc |-> "done", ok |-> FALSE, sock |-> "none", exc |-> FALSE]
    ELSE IF net.socket_ok /\ net.connect_ok /\ net.send_ok /\ net.recv.timeout
      THEN [pc |-> "blocked", ok |-> FALSE, sock |-> "open", exc |-> FALSE]
    ELSE IF r.result
      THEN [pc |-> "waitlock", ok |-> TRUE, sock |-> r.sock, exc |-> FALSE]
    ELSE [pc |-> "done", ok |-> FALSE, sock |-> r.sock, exc |-> FALSE]

\* crawl_peer, lines 97-101 (and 116-117 when its body raises): what the task
\* is after the parse and the handshake against a peer behaving as net
crawl_peer_probe_result(a, net) ==
    IF ParseRaises(a)
      THEN [pc |-> "done", ok |-> FALSE, sock |-> "none", exc |-> crawl_peer_except]
    ELSE LET r == test_pq_handshake(net)
             s == r.sock
         IN  IF r.escapes
               THEN [pc |-> "done", ok |-> FALSE, sock |-> s, exc |-> crawl_peer_except]
             ELSE IF r.result
               THEN [pc |-> "waitlock", ok |-> TRUE, sock |-> s, exc |-> FALSE]
             ELSE [pc |-> "done", ok |-> FALSE, sock |-> s, exc |-> FALSE]

crawl_peer_probe(a) ==
    /\ futures[a].pc = "running"
    /\ \E net \in NetBehaviours :
         futures' = SetTask(a, crawl_peer_probe_result(a, net))
    /\ UNCHANGED <<config, codec, pending, known_peers, good_peers, lock, pc, max_workers, todo,
                   output, clock, passes, saves, sleeps, start_len,
                   inflight_at_cap>>

\* The with block of line 102 entered without waiting for the lock
lock_acquire_nolock(a) ==
    /\ futures[a].pc = "waitlock"
    /\ lock' = a
    /\ futures' = SetTask(a, [futures[a] EXCEPT !.pc = "locked"])
    /\ UNCHANGED <<config, codec, pending, known_peers, good_peers, pc,
                   max_workers, todo, output, clock, passes, saves, sleeps,
                   start_len, inflight_at_cap>>

\* with self.lock: (acquire)
lock_acquire(a) ==
    /\ futures[a].pc = "waitlock"
    /\ lock = Free
    /\ lock' = a
    /\ futures' = SetTask(a, [futures[a] EXCEPT !.pc = "locked"])
    /\ UNCHANGED <<config, codec, pending, known_peers, good_peers, pc, max_workers, todo,
                   output, clock, passes, saves, sleeps, start_len,
                   inflight_at_cap>>

\* peer_info of lines 103-110
peer_info(peer_addr, now) ==
    [addr |-> peer_addr, host |-> ParsedHost(peer_addr),
     port |-> ParsedPort(peer_addr), pq_capable |-> TRUE,
     last_seen |-> now, success_count |-> 1]

\* The new record put in front of the list instead of appended
record_capable_front(good, peer_addr, now) == <<peer_info(peer_addr, now)>> \o good

\* self.good_peers.append(peer_info)
record_capable(good, peer_addr, now) == Append(good, peer_info(peer_addr, now))

\* Lines 103-114, the release of the lock and the return of crawl_peer
crawl_peer_record(a) ==
    /\ futures[a].pc = "locked"
    /\ lock = a
    /\ good_peers' = record_capable(good_peers, a, clock)
    /\ lock' = Free
    /\ futures' = SetTask(a, [futures[a] EXCEPT !.pc = "done"])
    /\ inflight_at_cap' =
         IF inflight_at_cap = NotYet /\ Len(good_peers') >= max_peers
           THEN Cardinality(InFlight(futures))
           ELSE inflight_at_cap
    /\ UNCHANGED <<config, codec, pending, known_peers, pc, max_workers, todo, output, clock,
                   passes, saves, sleeps, start_len>>

worker == \E a \in Dispatched :
    \/ worker_run(a)
    \/ crawl_peer_probe(a)
    \/ lock_acquire(a)
    \/ crawl_peer_record(a)

Next ==
    \/ crawl_network_begin
    \/ for_check
    \/ submit
    \/ drain
    \/ save_peers_output
    \/ save_peers
    \/ sleep
    \/ worker

Spec == Init /\ [][Next]_vars

\* ------------------------------------------------------------- scheduling
\* The steps of the main thread
MainThread ==
    \/ crawl_network_begin
    \/ for_check
    \/ submit
    \/ drain
    \/ save_peers_output
    \/ save_peers
    \/ sleep

\* The steps of the task submitted for address a: the executor handing it to
\* a free worker thread, then crawl_peer
crawl_peer_task(a) ==
    /\ a \in Dispatched
    /\ \/ worker_run(a)
       \/ crawl_peer_probe(a)
       \/ lock_acquire(a)
       \/ crawl_peer_record(a)

\* The threads are scheduled: the main thread runs when it can, the executor
\* starts a queued task when a worker is free, and a worker goes on when it
\* can. sock.settimeout(PQ_HANDSHAKE_TIMEOUT) of line 69 makes connect, send
\* and recv return or raise socket.timeout, so the handshake step is one
\* of the steps that are taken; time.sleep returns.
MainThreadLive == MainThread /\ passes' <= MaxLivePasses

Fairness ==
    /\ WF_vars(MainThreadLive)
    /\ \A a \in add_seed_nodes({}) : WF_vars(crawl_peer_task(a))

\* Both modes, with the cap that stops the loop at once and with the largest
InitLive == Init /\ max_peers \in {0, MaxMaxPeers}

NextLive ==
    \/ MainThreadLive
    \/ worker

SpecLive == InitLive /\ [][NextLive]_vars /\ Fairness

\* ------------------------------------------------------ external shutdown
\* run_continuous is "while True" with no stop condition and the file installs
\* no signal handler: the one way to ask the running seeder to stop is a
\* signal. SIGINT raises KeyboardInterrupt in the main thread, wherever it is.
\* Inside the with block of crawl_network the exception first goes through
\* the executor's __exit__, which waits for the tasks already submitted;
\* it then leaves crawl_network, run_continuous and main, which catch nothing.
KeyboardInterrupt ==
    /\ pc \in {"main", "for", "submit", "drain", "completed", "dump", "sleep",
               "loop_top"}
    /\ pc' = IF pc \in {"for", "submit", "drain"} THEN "unwinding" ELSE "aborted"
    /\ UNCHANGED <<config, codec, pending, known_peers, good_peers, lock, max_workers,
                   todo, futures, output, clock, passes, saves, sleeps,
                   start_len, inflight_at_cap>>

\* The executor's __exit__ while the KeyboardInterrupt propagates:
\* shutdown(wait=True) returns when the submitted tasks have run
executor_exit ==
    /\ pc = "unwinding"
    /\ AllDone(futures)
    /\ pc' = "aborted"
    /\ UNCHANGED <<config, codec, pending, known_peers, good_peers, lock, max_workers,
                   todo, futures, output, clock, passes, saves, sleeps,
                   start_len, inflight_at_cap>>

\* python3 qtc-seeder.py --continuous
InitShutdown == Init /\ continuous

NextShutdown ==
    \/ Next
    \/ KeyboardInterrupt
    \/ executor_exit

SpecShutdown == InitShutdown /\ [][NextShutdown]_vars

\* ------------------------------------------- the two methods on their own
\* The ciphertexts create_pq_handshake is called with: every byte string of
\* length up to MaxCipherLen over three byte values, zero-filled ones around
\* the one-byte, the default and the 16-bit limits, and no argument at all
CipherBytes == {0, 1, 255}

Ciphertexts ==
    UNION {[1..n -> CipherBytes] : n \in 0..MaxCipherLen}
    \cup {Zeros(n) : n \in {255, 256, 257, DummyCiphertextLen,
                            UInt16Max, UInt16Max + 1}}

\* The responses recv hands to the check of lines 81-83: the magic or the
\* magic with one byte wrong, two bytes, a status byte and a tail, cut at
\* every length
Cut(b, k) == SubSeq(b, 1, k)

ProbeResponses ==
    LET magics == {QTC_MAGIC_BYTES} \cup
                  {[QTC_MAGIC_BYTES EXCEPT ![i] = 0] : i \in 1..4}
        tails  == UNION {[1..n -> {0, 1}] : n \in 0..MaxTail}
        full   == {m \o <<a, b, st>> \o t :
                     m \in magics, a \in {0, 1}, b \in {0, 1},
                     st \in {0, 1, 255}, t \in tails}
    IN  UNION {{Cut(r, k) : k \in 0..Len(r)} : r \in full}

CodecCalls ==
    {[fn |-> "create_pq_handshake", arg |-> None]} \cup
    {[fn |-> "create_pq_handshake", arg |-> Bytes(b)] : b \in Ciphertexts} \cup
    {[fn |-> "test_pq_handshake", arg |-> Bytes(r)] : r \in ProbeResponses}

\* A seeder constructed and left idle, and one call to make
InitCodec ==
    /\ Constructed
    /\ ~continuous /\ threads = 1 /\ max_peers = 0
    /\ call \in CodecCalls
    /\ ret = NoRet

\* seeder.create_pq_handshake(server_pk)
create_pq_handshake_call ==
    /\ call.fn = "create_pq_handshake"
    /\ ~ret.done
    /\ ret' = [done |-> TRUE, out |-> create_pq_handshake(call.arg)]
    /\ UNCHANGED <<config, pending, known_peers, good_peers, lock, pc,
                   max_workers, todo, futures, output, clock, passes, saves,
                   sleeps, start_len, inflight_at_cap, call>>

\* seeder.test_pq_handshake(host, port) with a peer that accepts the
\* connection and answers the ClientHello with the bytes of the argument
test_pq_handshake_call ==
    /\ call.fn = "test_pq_handshake"
    /\ ~ret.done
    /\ ret' = [done |-> TRUE,
               out |-> test_pq_handshake(
                          NetOk([timeout |-> FALSE, data |-> call.arg.bytes]))]
    /\ UNCHANGED <<config, pending, known_peers, good_peers, lock, pc,
                   max_workers, todo, futures, output, clock, passes, saves,
                   sleeps, start_len, inflight_at_cap, call>>

NextCodec ==
    \/ create_pq_handshake_call
    \/ test_pq_handshake_call

SpecCodec == InitCodec /\ [][NextCodec]_vars

\* ------------------------------------ test/functional/qtc_pq_witness_size.py
\* witness_size = len(mock_sig) + len(mock_pk)
witness_size == MockSigLen + MockPkLen

\* The weight with the witness counted four times, as the base is
qtc_weight_nodiscount(base_size, wsize) == base_size * 4 + wsize * 4

\* qtc_weight = base_size * 4 + witness_size
qtc_weight(base_size, wsize) == base_size * 4 + wsize

\* legacy_effective = base_size + witness_size
legacy_effective(base_size, wsize) == base_size + wsize

\* qtc_effective = qtc_weight // 4 (floor division; the operands are not
\* negative)
qtc_effective(base_size, wsize) == qtc_weight(base_size, wsize) \div 4

\* Lines 46-74 of run_test for a transaction of base_size bytes and a witness
\* of wsize bytes: the three numbers archived and whether the assert passes
run_test(base_size, wsize) ==
    [weight |-> qtc_weight(base_size, wsize),
     legacy_effective |-> legacy_effective(base_size, wsize),
     qtc_effective |-> qtc_effective(base_size, wsize),
     assert_ok |-> qtc_effective(base_size, wsize)
                     < legacy_effective(base_size, wsize)]

\* The sizes run_test is applied to: small ones, the mock witness, and the
\* size of a one-input one-output transaction and of a large one
BaseSizes == 0..MaxBaseSize \cup {85, 100000}

WitnessSizes == 0..MaxWitnessSize \cup {witness_size}

\* -------------------------------------------- verify_qtc_implementation.py
\* A string is the sequence of its characters.
\* valid_chars = "qpzry9x8gf2tvdw0s3jn54khce6mua7l"
valid_chars ==
    <<"q", "p", "z", "r", "y", "9", "x", "8", "g", "f", "2", "t", "v", "d",
      "w", "0", "s", "3", "j", "n", "5", "4", "k", "h", "c", "e", "6", "m",
      "u", "a", "7", "l">>

AsciiUpper ==
    <<"A", "B", "C", "D", "E", "F", "G", "H", "I", "J", "K", "L", "M", "N",
      "O", "P", "Q", "R", "S", "T", "U", "V", "W", "X", "Y", "Z">>

AsciiLower ==
    <<"a", "b", "c", "d", "e", "f", "g", "h", "i", "j", "k", "l", "m", "n",
      "o", "p", "q", "r", "s", "t", "u", "v", "w", "x", "y", "z">>

\* The loop over address[4:] without .lower()
lower_char_asis(c) == c

\* str.lower(), character by character: an upper-case letter becomes its
\* lower-case one, any other character stays
lower_char(c) ==
    IF \E i \in 1..Len(AsciiUpper) : AsciiUpper[i] = c
      THEN AsciiLower[CHOOSE i \in 1..Len(AsciiUpper) : AsciiUpper[i] = c]
      ELSE c

\* address.startswith(prefix)
startswith(str, prefix) ==
    Len(str) >= Len(prefix) /\ SubSeq(str, 1, Len(prefix)) = prefix

\* char in valid_chars
in_valid_chars(c) == \E k \in 1..Len(valid_chars) : valid_chars[k] = c

\* verify_address_format(address), lines 49-69: the value returned; no
\* operation of the function raises on a str
verify_address_format(address) ==
    IF ~startswith(address, <<"q", "t", "c", "1">>)
      THEN FALSE
    ELSE IF Len(address) # AddressLen
      THEN FALSE
    ELSE \A i \in 5..Len(address) : in_valid_chars(lower_char(address[i]))

\* The addresses verify_address_format is called with: a prefix, right or
\* wrong, and a body of q's with one character of it replaced, of the right
\* length or MaxAddrSlack off it; and the strings shorter than the prefix
AddrPrefixes ==
    {<<"q", "t", "c", "1">>, <<"Q", "T", "C", "1">>, <<"q", "t", "c", "2">>,
     <<"b", "c", "1">>, <<"q", "t", "c">>, <<>>}

BodyChars == {"q", "l", "Q", "L", "0", "7", "1", "b", "i", "o", "B", "O", "!", " "}

AddrBodies ==
    {[i \in 1..n |-> IF i = pos THEN ch ELSE "q"] :
        n \in (AddressLen - 4 - MaxAddrSlack)..(AddressLen - 4 + MaxAddrSlack),
        pos \in {1, 2, AddressLen - 4},
        ch \in BodyChars}

Addresses ==
    {p \o b : p \in AddrPrefixes, b \in AddrBodies}
    \cup {<<>>, <<"q">>, <<"q", "t", "c", "1">>}

ScriptCalls ==
    {[fn |-> "run_test", arg |-> [base_size |-> b, witness_size |-> w]] :
        b \in BaseSizes, w \in WitnessSizes}
    \cup {[fn |-> "verify_address_format", arg |-> a] : a \in Addresses}

\* The scripts do not use the seeder: it stays as constructed
InitScripts ==
    /\ Constructed
    /\ ~continuous /\ threads = 1 /\ max_peers = 0
    /\ call \in ScriptCalls
    /\ ret = NoRet

run_test_call ==
    /\ call.fn = "run_test"
    /\ ~ret.done
    /\ ret' = [done |-> TRUE,
               out |-> run_test(call.arg.base_size, call.arg.witness_size)]
    /\ UNCHANGED <<config, pending, known_peers, good_peers, lock, pc,
                   max_workers, todo, futures, output, clock, passes, saves,
                   sleeps, start_len, inflight_at_cap, call>>

verify_address_format_call ==
    /\ call.fn = "verify_address_format"
    /\ ~ret.done
    /\ ret' = [done |-> TRUE, out |-> verify_address_format(call.arg)]
    /\ UNCHANGED <<config, pending, known_peers, good_peers, lock, pc,
                   max_workers, todo, futures, output, clock, passes, saves,
                   sleeps, start_len, inflight_at_cap, call>>

NextScripts ==
    \/ run_test_call
    \/ verify_address_format_call

SpecScripts == InitScripts /\ [][NextScripts]_vars

\* ------------------------------------------------------------ properties
\* The addresses of the records appended since the current pass began
PassRecords == {good_peers[i].addr : i \in (start_len + 1)..Len(good_peers)}

\* The tasks of the current pass whose handshake returned True
Accepted == {a \in Dispatched : futures[a].ok}

\* The main thread has left crawl_network
PassOver == pc \in {"completed", "dump", "sleep", "loop_top", "exit", "crashed"}

\* How far a task has got
Rank(p) ==
    CASE p = "queued" -> 0 [] p = "running" -> 1 [] p = "waitlock" -> 2
      [] p = "locked" -> 3 [] p = "done" -> 4

\* C1: good_peers holds at most one record per address string.
C1_NoDuplicateAddress ==
    \A i, j \in 1..Len(good_peers) :
        good_peers[i].addr = good_peers[j].addr => i = j

\* C2: after a pass has completed, the number of confirmed peers is at most
\* max_peers + (worker count - 1).
C2_CapPlusWorkers ==
    pc = "completed" => Len(good_peers) <= max_peers + (max_workers - 1)

\* C3: when a pass has more capable addresses than max_peers, the confirmed
\* count at the end of the pass equals max_peers, and every dispatched probe
\* has run to completion.
C3_CountEqualsCap ==
    (pc = "completed" /\ Cardinality(Accepted) > max_peers)
        => (Len(good_peers) = max_peers /\ InFlight(futures) = {})

\* The confirmed count exceeds max_peers by at most the number of probes that
\* were dispatched and not yet returned when it first reached max_peers
InFlightBound ==
    inflight_at_cap # NotYet => Len(good_peers) <= max_peers + inflight_at_cap

\* C4: the in-flight bound holds (the probe that records the max_peers-th peer
\* counted among those in flight) and no probe is dispatched after the
\* confirmed count has reached max_peers.
C4_NoDispatchAfterCap ==
    /\ []InFlightBound
    /\ [][(pc = "submit" /\ pc' = "for") => Len(good_peers) < max_peers]_vars

\* C5: once crawl_network has passed its 'Crawl completed' point (and while
\* save_peers runs, and after), no probe of that pass is queued or executing.
C5_DrainedBeforeComplete == PassOver => InFlight(futures) = {}

C5_Witness ==
    /\ pc = "completed"
    /\ Cardinality(Dispatched) >= 3
    /\ Cardinality(PassRecords) >= 1
    /\ \E a \in Dispatched : ~futures[a].ok

\* C6: no socket opened by test_pq_handshake is still open after that call
\* has returned.
C6_SocketClosedOnReturn ==
    \A a \in Dispatched :
        futures[a].pc \in {"waitlock", "locked", "done"} => futures[a].sock # "open"

\* C7: in continuous mode a failure to write the output file does not end
\* the loop.
C7_LoopSurvivesSaveError == continuous => pc # "crashed"

\* Address strings crawl_peer may be called with, well-formed and not
AddrSamples ==
    { <<"host", ":", "8", "0">>, <<"a", ":", "b", ":", "9">>,
      <<"nocolon">>, <<"host", ":">>, <<"host", ":", "x">>,
      <<"host", ":", "8", "x">>, <<>> }

\* C8: a failed probe never aborts the pass: no exception leaves crawl_peer,
\* the main thread is stopped by nothing but save_peers, a probe that has
\* returned is recorded in this pass exactly if its handshake returned True,
\* and once the pass is over every dispatched address has been probed and
\* every capable one recorded once. For an address string that does not split
\* into a host and an integer port crawl_peer returns without an exception,
\* a socket or a record; the frontier's own addresses all split.
C8_FailureIsLocal ==
    /\ pc = "main" =>       \* state-independent: evaluated once per run
         \A s \in AddrSamples : \A net \in NetBehaviours :
           LET t == crawl_peer_probe_result(s, net)
           IN  /\ ~t.exc
               /\ ParseRaises(s) => (t.pc = "done" /\ ~t.ok /\ t.sock = "none")
               /\ t.ok => (~ParseRaises(s) /\ Accepts(net.recv.data))
    /\ \A a \in known_peers : ~ParseRaises(a)
    /\ \A a \in Dispatched : ~futures[a].exc
    /\ pc = "crashed" => saves = passes
    /\ \A a \in Dispatched :
         futures[a].pc = "done" => (futures[a].ok <=> a \in PassRecords)
    /\ PassOver =>
         /\ \A a \in Dispatched : futures[a].pc = "done"
         /\ Len(good_peers) - start_len = Cardinality(Accepted)

C8_Witness ==
    /\ pc = "completed"
    /\ \E a, b, c \in Dispatched :
         /\ ~futures[a].ok /\ futures[a].sock = "open"
         /\ ~futures[b].ok /\ futures[b].sock = "closed"
         /\ futures[c].ok /\ c \in PassRecords

\* C9: once the coordinator observes len(good_peers) >= max_peers it leaves
\* the dispatch loop; probes are dispatched by submit alone and the tasks of a
\* pass are dropped only when the next pass begins, all of them done; a task
\* never goes back or disappears; and a pass that starts with the cap reached
\* dispatches nothing and leaves good_peers as it was.
C9_StopAtCap ==
    /\ [](start_len >= max_peers =>
            (Dispatched = {} /\ Len(good_peers) = start_len))
    /\ [][(pc = "for" /\ Len(good_peers) >= max_peers /\ pc' # pc)
            => pc' = "drain"]_vars
    /\ [][Dispatched' # Dispatched =>
            \/ pc = "submit" /\ pc' = "for" /\ Dispatched \subseteq Dispatched'
            \/ pc \in {"main", "loop_top"} /\ pc' = "for" /\ Dispatched' = {}]_vars
    /\ [][\A a \in Dispatched :
            \/ /\ a \in Dispatched'
               /\ Rank(futures'[a].pc) >= Rank(futures[a].pc)
            \/ futures[a].pc = "done" /\ Dispatched' = {}]_vars

\* A later pass that began with the cap reached has completed without a probe
C9_Witness ==
    /\ pc = "completed"
    /\ passes = 2
    /\ max_peers > 0
    /\ start_len >= max_peers
    /\ Dispatched = {}

\* C10: single-shot mode runs one pass, then one save_peers, then stops;
\* continuous mode follows every pass by one save_peers and one sleep, and a
\* pass begins only with the previous pass's result in the output file.
C10_RunnerOrder ==
    LET inpass == pc \in {"for", "submit", "drain", "completed"}
    IN  /\ ~continuous =>
            /\ passes <= 1 /\ sleeps = 0
            /\ pc # "sleep" /\ pc # "loop_top"
            /\ inpass => saves = 0
            /\ pc = "exit" => (passes = 1 /\ saves = 1 /\ ~ENABLED Next)
        /\ continuous =>
            /\ pc # "exit"
            /\ inpass => (saves = passes - 1 /\ sleeps = passes - 1)
            /\ pc = "sleep" => (saves = passes /\ sleeps = passes - 1)
            /\ pc = "loop_top" => (saves = passes /\ sleeps = passes)
            /\ (inpass /\ passes > 1) =>
                 (output # NoFile /\ output.peers = SubSeq(good_peers, 1, start_len))

C10_Witness ==
    /\ continuous
    /\ passes = 2
    /\ pc = "sleep"
    /\ saves = 2 /\ sleeps = 1
    /\ output # NoFile
    /\ output.timestamp = 1
    /\ output.total_peers = Len(good_peers)
    /\ Len(good_peers) > start_len

\* C11: the number of probes executing at once is at most the worker count
\* the operator gave with --threads.
C11_ExecutingWithinThreads == Cardinality(Executing) <= threads

\* C12: within one pass each address is probed at most once. The frontier
\* holds one entry per seed however often it is seeded (seeding again changes
\* nothing), an address is either still to be iterated or dispatched, never
\* both; a submit adds one task, for an address that has none, and leaves the
\* other tasks alone; and a task never goes back to an earlier stage, so a
\* probe that failed or timed out is not run again in the pass.
C12_ProbedOncePerPass ==
    /\ [](/\ todo \cap Dispatched = {}
          /\ (todo \cup Dispatched) \subseteq known_peers
          /\ Cardinality(known_peers) <= Len(seeds)
          /\ passes >= 1 =>
               /\ Cardinality(known_peers) = Len(seeds)
               /\ \A i \in 1..Len(seeds) :
                    known_peers \cup {FormatAddr(seeds[i], DEFAULT_PORT)} = known_peers)
    /\ [][(pc = "submit" /\ pc' = "for") =>
            \E peer \in known_peers \ Dispatched :
               /\ Dispatched' = Dispatched \cup {peer}
               /\ futures'[peer].pc = "queued"
               /\ \A a \in Dispatched : futures'[a] = futures[a]]_vars
    /\ [][\A a \in Dispatched \cap Dispatched' :
            Rank(futures'[a].pc) >= Rank(futures[a].pc)]_vars

\* In the second pass every seed has been dispatched once more, and one whose
\* probe failed is done, not queued again
C12_Witness ==
    /\ passes = 2
    /\ pc = "completed"
    /\ Dispatched = known_peers
    /\ Cardinality(Dispatched) = Len(seeds)
    /\ \E a \in Dispatched : futures[a].pc = "done" /\ ~futures[a].ok

\* C13: the confirmed list only grows. In every step, the start of a pass
\* included, the list after the step has the list before it as a prefix:
\* the count never decreases and no record is removed, moved or changed.
C13_ConfirmedOnlyGrows ==
    [][/\ Len(good_peers') >= Len(good_peers)
       /\ \A i \in 1..Len(good_peers) : good_peers'[i] = good_peers[i]]_vars

\* A second pass has begun with a record of the first pass, and appended one
C13_Witness ==
    /\ passes = 2
    /\ start_len >= 1
    /\ Len(good_peers) > start_len

\* C14: an address confirmed in an earlier pass whose probe is accepted again
\* has its record updated: the success_count of a record is the number of
\* times its address was found capable (each of which reached line 111), and
\* its last_seen is the time of the latest of them.
C14_RediscoveryUpdatesRecord ==
    \A i \in 1..Len(good_peers) :
       LET found == {j \in 1..Len(good_peers) :
                        good_peers[j].addr = good_peers[i].addr} IN
       /\ good_peers[i].success_count = Cardinality(found)
       /\ \A j \in found : good_peers[i].last_seen >= good_peers[j].last_seen

\* C15: the document written after a pass is the registry as it was when the
\* pass completed. Between the computation of total_peers and the
\* serialization of peers no task is in flight and the list keeps the length
\* counted; the write replaces the whole file with that time's timestamp, the
\* count and the list; and any document in the file has total_peers equal to
\* the length of its peers.
C15_SnapshotPersisted ==
    /\ [](/\ pc = "dump" =>
               /\ InFlight(futures) = {}
               /\ pending.total_peers = Len(good_peers)
               /\ pending.timestamp = clock
          /\ output.written => output.total_peers = Len(output.peers))
    /\ [][(pc = "dump" /\ pc' \in {"sleep", "exit"}) =>
            output' = [written |-> TRUE, timestamp |-> clock,
                       total_peers |-> Len(good_peers), peers |-> good_peers]]_vars

\* The second document has replaced the first, which held fewer records
C15_Witness ==
    /\ pc = "sleep"
    /\ saves = 2
    /\ output.written
    /\ output.timestamp = 1
    /\ output.total_peers = 2
    /\ output.peers = good_peers
    /\ start_len = 1

\* C16: in continuous mode a shutdown request is honoured at a pass boundary.
\* When the process has stopped on the request, every pass it started has
\* finished: the loop went through the whole frontier or stopped at the cap,
\* and the pass's result was handed to save_peers.
C16_ShutdownAtPassBoundary ==
    (continuous /\ pc = "aborted") =>
        /\ saves = passes
        /\ (todo = {} \/ Len(good_peers) >= max_peers)

\* C17: the acceptance check answers true exactly for a response of at least
\* 7 bytes that begins with F9 BE B4 D9 and has 0 at offset 6; any other
\* response makes the probe return false, and no exception leaves it.
C17_AcceptanceCheck ==
    (call.fn = "test_pq_handshake" /\ ret.done) =>
        LET response == call.arg.bytes IN
        /\ ~ret.out.escapes
        /\ ret.out.result <=>
             /\ Len(response) >= 7
             /\ response[1] = 249 /\ response[2] = 190
             /\ response[3] = 180 /\ response[4] = 217
             /\ response[7] = 0

\* A response of exactly 7 bytes was accepted
C17_Witness ==
    /\ call.fn = "test_pq_handshake"
    /\ ret.done
    /\ Len(call.arg.bytes) = 7
    /\ ret.out.result

C19_RegistrySerialized ==
    /\ [](/\ Cardinality({a \in Dispatched : futures[a].pc = "locked"}) <= 1
          /\ \A a \in Dispatched : futures[a].pc = "locked" <=> lock = a
          /\ lock # Free => lock \in Dispatched)
    /\ [][good_peers' # good_peers =>
            (lock # Free /\ lock' = Free /\ futures[lock].pc = "locked"
             /\ futures'[lock].pc = "done")]_vars
    /\ [][(known_peers' # known_peers \/ passes' # passes) =>
            (InFlight(futures) = {} /\ InFlight(futures') = {}
             /\ lock = Free /\ good_peers' = good_peers)]_vars

\* Two workers have an accepted probe: one is inside the with block and the
\* other waits for the lock, in a second pass
C19_Witness ==
    /\ passes = 2
    /\ lock # Free
    /\ \E a \in Dispatched : futures[a].pc = "locked"
    /\ \E b \in Dispatched : futures[b].pc = "waitlock"

\* C20: every record of the confirmed list comes from the registry step of
\* crawl_peer, run for an address of the frontier that was dispatched in the
\* pass and whose handshake returned True. The records of the current pass
\* are those of its tasks that were accepted and have returned, one each; a
\* task that has returned without being accepted has no record from the
\* pass; the list changes only by the lock holder appending the record of
\* its own address; and the step in which a task runs its handshake leaves
\* the frontier and the list as they are.
C20_RecordsFromAcceptedProbes ==
    /\ [](/\ \A i \in 1..Len(good_peers) :
                good_peers[i].addr \in known_peers /\ good_peers[i].pq_capable
          /\ PassRecords = {a \in Dispatched :
                               futures[a].ok /\ futures[a].pc = "done"}
          /\ Len(good_peers) - start_len = Cardinality(PassRecords)
          /\ \A a \in Dispatched :
                (futures[a].pc = "done" /\ ~futures[a].ok) => a \notin PassRecords)
    /\ [][good_peers' # good_peers =>
            \E a \in Dispatched :
               /\ futures[a].pc = "locked" /\ futures[a].ok /\ lock = a
               /\ Len(good_peers') = Len(good_peers) + 1
               /\ SubSeq(good_peers', 1, Len(good_peers)) = good_peers
               /\ good_peers'[Len(good_peers')].addr = a
               /\ good_peers'[Len(good_peers')].last_seen = clock
               /\ good_peers'[Len(good_peers')].success_count = 1]_vars
    /\ [][(\E a \in Dispatched \cap Dispatched' :
              futures[a].pc = "running" /\ futures'[a].pc # "running") =>
            UNCHANGED <<known_peers, todo, good_peers>>]_vars

\* A pass is over in which one address was accepted and has its record and
\* another was not and has none
C20_Witness ==
    /\ pc = "completed"
    /\ \E a, b \in Dispatched :
          /\ futures[a].pc = "done" /\ futures[a].ok /\ a \in PassRecords
          /\ futures[b].pc = "done" /\ ~futures[b].ok /\ b \notin PassRecords

\* The addresses with a task submitted whose crawl_peer has not returned
Probing == {a \in Dispatched : futures[a].pc # "done"}

\* The task submitted for address a has returned
Returned(a) == a \in Dispatched /\ futures[a].pc = "done"

\* C21: every pass completes. With every thread scheduled and every socket
\* call returning or timing out, each dispatched probe returns, a pass that
\* has begun reaches the end of crawl_network with all its probes returned,
\* and a single-shot run goes on to save_peers and ends: at exit with the
\* document written, or with the exception open or json.dump raised.
C21_PassCompletes ==
    /\ (pc \in {"for", "submit", "drain"}) ~>
          (pc = "completed" /\ \A a \in Dispatched : Returned(a))
    /\ [](pc \in {"for", "submit", "drain"} \/ Probing = {})
    /\ (~continuous) ~>
          (pc \in {"exit", "crashed"} /\ passes = 1 /\ saves = 1)
    /\ []((~continuous /\ pc = "exit") => (output.written /\ saves = 1))
    /\ []((~continuous /\ pc = "crashed") => saves = 1)

\* A single-shot run has ended with its document written, after a pass that
\* probed every seed, one of them without an answer
C21_Witness ==
    /\ ~continuous
    /\ pc = "exit"
    /\ output.written
    /\ Cardinality(Dispatched) = Len(seeds)
    /\ \E a \in Dispatched : Returned(a) /\ ~futures[a].ok /\ futures[a].sock = "open"

\* C22: a pass in which no probe is accepted still completes and its result
\* is still written. Such a pass leaves the confirmed list as it found it and
\* ends at the end of crawl_network, where save_peers can be called; if the
\* process stops with an exception it is one raised by save_peers; and after
\* the write the file holds the document of the unchanged list, which after a
\* first pass is total_peers = 0 with no peers.
C22_EmptyPassPersisted ==
    (PassOver /\ Accepted = {}) =>
        /\ Len(good_peers) = start_len
        /\ pc = "crashed" => saves = passes
        /\ pc = "completed" => ENABLED save_peers_output
        /\ pc \in {"sleep", "exit"} =>
              /\ output.written
              /\ output.total_peers = start_len
              /\ output.peers = good_peers
              /\ passes = 1 => (output.total_peers = 0 /\ output.peers = <<>>)

\* A single-shot run in which every seed was probed and none accepted has
\* written its document
C22_Witness ==
    /\ pc = "exit"
    /\ passes = 1
    /\ Cardinality(Dispatched) = Len(seeds)
    /\ Accepted = {}
    /\ output.written
    /\ output.total_peers = 0
    /\ output.peers = <<>>

\* C23: every pass starts from the configured seed set, whatever earlier
\* passes found. Before the first pass the frontier is empty; from then on
\* it is exactly the seeds, at every moment, so no probe result adds or
\* removes an address. In each pass every seed is either still to be
\* iterated or dispatched, whether it failed or was confirmed before, and
\* the loop leaves addresses undispatched only when the confirmed count has
\* reached the cap.
C23_FrontierIsSeeds ==
    LET seedset == {FormatAddr(seeds[i], DEFAULT_PORT) : i \in 1..Len(seeds)} IN
    /\ passes = 0 => known_peers = {}
    /\ passes >= 1 =>
          /\ known_peers = seedset
          /\ todo \cup Dispatched = seedset
    /\ (pc = "for" /\ Dispatched = {} /\ passes >= 1) => todo = seedset
    /\ (pc \notin {"main", "for", "submit"} /\ todo # {}) =>
          Len(good_peers) >= max_peers

\* In a second pass every seed has been dispatched: the one confirmed in the
\* first pass, and the three that failed in it
C23_Witness ==
    /\ passes = 2
    /\ start_len = 1
    /\ Cardinality(Dispatched) = Len(seeds)
    /\ good_peers[1].addr \in Dispatched

\* C24: for a base size b >= 0 and a witness size w >= 1 the discounted size
\* (4*b + w) // 4 is strictly less than b + w, so the assertion of the
\* witness-size test passes; it does for the mock witness of 3293 + 1952
\* bytes with any base size.
C24_DiscountedIsSmaller ==
    (call.fn = "run_test" /\ ret.done) =>
        LET b == call.arg.base_size
            w == call.arg.witness_size
        IN  /\ (b >= 0 /\ w >= 1) =>
                 /\ ret.out.qtc_effective = (4 * b + w) \div 4
                 /\ ret.out.legacy_effective = b + w
                 /\ ret.out.qtc_effective < b + w
                 /\ ret.out.assert_ok
            /\ w = 3293 + 1952 => ret.out.assert_ok

\* The test's own witness size with an 85-byte transaction: 1396 < 5330
C24_Witness ==
    /\ call.fn = "run_test"
    /\ ret.done
    /\ call.arg.base_size = 85
    /\ call.arg.witness_size = 5245
    /\ ret.out.qtc_effective = 1396
    /\ ret.out.legacy_effective = 5330
    /\ ret.out.assert_ok

\* C25: verify_address_format returns True exactly for an address that
\* starts with qtc1, has 42 characters, and whose characters after the
\* prefix are, once lower-cased, in the bech32 alphabet; for any other
\* string it returns False.
C25_AddressFormat ==
    (call.fn = "verify_address_format" /\ ret.done) =>
        LET address  == call.arg
            alphabet == {"q", "p", "z", "r", "y", "9", "x", "8", "g", "f", "2",
                         "t", "v", "d", "w", "0", "s", "3", "j", "n", "5", "4",
                         "k", "h", "c", "e", "6", "m", "u", "a", "7", "l"}
            capitals == {"Q", "P", "Z", "R", "Y", "X", "G", "F", "T", "V", "D",
                         "W", "S", "J", "N", "K", "H", "C", "E", "M", "U", "A",
                         "L"}
        IN  /\ ret.out \in BOOLEAN
            /\ ret.out <=>
                 /\ Len(address) = 42
                 /\ address[1] = "q" /\ address[2] = "t"
                 /\ address[3] = "c" /\ address[4] = "1"
                 /\ \A i \in 5..42 : address[i] \in alphabet \cup capitals

\* An address of 42 characters with a capital letter after the prefix was
\* accepted
C25_Witness ==
    /\ call.fn = "verify_address_format"
    /\ ret.done
    /\ ret.out
    /\ Len(call.arg) = 42
    /\ \E i \in 5..42 : call.arg[i] = "L"

====
